---- MODULE Spec2Model ----
(***************************************************************************)
(* Paper-trading simulator: the position engine of SimulatorDB             *)
(* (src/lib/simulator-db.js), the polling handler and the new-signal       *)
(* intake handler (src/api/check-positions.js).                            *)
(*                                                                         *)
(* Units.  The code computes in IEEE doubles; the model computes in exact  *)
(* arithmetic on integers:                                                 *)
(*   - every price and every amount of money (size, pnl, liquidity,        *)
(*     capital) is a whole number of 1/1000 USD, so 1.44 USD is 1440;      *)
(*   - every fraction of the configuration (stopLoss, trailDistance,       *)
(*     trailActivation) is a whole number of percent, so 0.15 is 15 and    *)
(*     1.5 is 150;                                                         *)
(*   - a slippage is a whole number of 1/1000, so 0.10 is 100.             *)
(* The prices, entries and liquidities the model draws are chosen so that  *)
(* every division below is exact.                                          *)
(***************************************************************************)
EXTENDS Integers, Sequences, FiniteSets, TLC

\* ------------------------------------------------------------------------
\* Bounds of the model
\* ------------------------------------------------------------------------

\* calls made on one SimulatorDB instance in the engine-level specification
MaxCalls == 5

\* polling invocations started in the system-level specification
MaxRuns == 1

\* new-signal invocations started in the system-level specification
MaxSignals == 2

\* ------------------------------------------------------------------------
\* Values
\* ------------------------------------------------------------------------

\* JavaScript null (trailPrice, exitPrice before they are set)
Null == -1

Addr == {"a1", "a2"}

\* prices an update or a quote can carry (1/1000 USD)
Prices == {800, 1400, 1440, 1560, 1600}

\* prices a position can be entered at
EntryPrices == {1000}

Min(x, y) == IF x < y THEN x ELSE y

Max(x, y) == IF x > y THEN x ELSE y

\* ------------------------------------------------------------------------
\* The document (SimulatorDB.db)
\* ------------------------------------------------------------------------

\* config of a fresh document, load()
FreshConfig ==
  [positionSize |-> 250000, scoreFilter |-> 30, trailActivation |-> 150,
   trailDistance |-> 5, stopLoss |-> 15]

\* Configurations a persisted document can carry: the fresh one, the fresh
\* one with the 10% trail distance, and one without a stopLoss key
\* (stopLoss 0 stands for the missing key; both are falsy in the code).
Configs ==
  { FreshConfig,
    [FreshConfig EXCEPT !.trailDistance = 10],
    [FreshConfig EXCEPT !.trailDistance = 10, !.stopLoss = 0] }

\* the configurations the system-level specifications start from
SysConfigs == { FreshConfig, [FreshConfig EXCEPT !.trailDistance = 10] }

\* stats of a fresh document, load()
FreshStats ==
  [totalTrades |-> 0, openPositions |-> 0, closedPositions |-> 0,
   totalPnL |-> 0, winCount |-> 0, lossCount |-> 0,
   startingCapital |-> 0, peakCapitalDeployed |-> 0,
   totalCapitalDeployed |-> 0, capitalFromProfits |-> 0]

\* The fresh document of load().  keys is the insertion order of the keys of
\* positions (the order Object.entries enumerates them in).
FreshDB(cfg) ==
  [config |-> cfg, stats |-> FreshStats, positions |-> << >>,
   keys |-> << >>, history |-> << >>]

\* history is cut to its last HistoryLimit records
HistoryLimit == 1000

HasPosition(d, a) == a \in DOMAIN d.positions

IsOpen(p) == p.status = "active" \/ p.status = "trailing"

\* getPosition: the position, or null
NoPosition == [status |-> "none"]

GetPosition(d, a) == IF HasPosition(d, a) THEN d.positions[a] ELSE NoPosition

RECURSIVE SelectKeys(_, _, _)
\* the keys of status-class open (TRUE) or exited (FALSE), in key order
SelectKeys(d, ks, open) ==
  IF ks = << >> THEN << >>
  ELSE LET rest == SelectKeys(d, Tail(ks), open)
       IN IF IsOpen(d.positions[Head(ks)]) = open
          THEN << Head(ks) >> \o rest ELSE rest

\* getOpenPositions, as the sequence of their addresses
GetOpenPositions(d) == SelectKeys(d, d.keys, TRUE)

\* getClosedPositions, as the sequence of their addresses
GetClosedPositions(d) == SelectKeys(d, d.keys, FALSE)

RECURSIVE SumOver(_, _, _)
\* sum of field f (a selector name) over the positions named by ks
SumOver(d, ks, f) ==
  IF ks = << >> THEN 0
  ELSE (CASE f = "size" -> d.positions[Head(ks)].size
          [] f = "pnl" -> d.positions[Head(ks)].pnl
          [] f = "unrealizedPnL" -> d.positions[Head(ks)].unrealizedPnL)
       + SumOver(d, Tail(ks), f)

\* getStats(): the open positions' pnl field is summed; winRate is the
\* percentage with one decimal, kept here in tenths of a percent
GetStats(d) ==
  LET open == GetOpenPositions(d)
      unrealizedPnL == SumOver(d, open, "pnl")
  IN [unrealizedPnL |-> unrealizedPnL,
      totalPnL |-> d.stats.totalPnL + unrealizedPnL,
      winRate |-> IF d.stats.closedPositions > 0
                  THEN (d.stats.winCount * 1000) \div d.stats.closedPositions
                  ELSE 0]

\* ------------------------------------------------------------------------
\* The position engine
\* ------------------------------------------------------------------------

\* (price / entryPrice - 1) * size
PnLOf(price, entryPrice, size) == ((price - entryPrice) * size) \div entryPrice

\* a position that starts without a peak
InitialPeak_Zero(data) == 0

\* peakPrice: data.entryPrice
InitialPeak(data) == data.entryPrice

\* the part of a new position paid from realized profits: all of it when
\* totalPnL covers the size, else what there is of profits, if any
FromProfits(availableProfits, posSize) ==
  IF availableProfits >= posSize THEN posSize ELSE Max(0, availableProfits)

\* fresh capital counted in full whatever the profits paid
FreshCapital_Whole(posSize, fromProfits) == posSize

\* startingCapital += posSize - fromProfits (nothing when profits paid all)
FreshCapital(posSize, fromProfits) == posSize - fromProfits

\* addPosition(tokenAddress, data); data.size 0 stands for a missing size
AddPosition(d, a, data) ==
  LET posSize == IF data.size # 0 THEN data.size ELSE d.config.positionSize
      pos == [status |-> "active", entryPrice |-> data.entryPrice,
              size |-> posSize, peakPrice |-> InitialPeak(data),
              trailPrice |-> Null, exitPrice |-> Null,
              exitReason |-> "none", pnl |-> 0, unrealizedPnL |-> 0]
      keys1 == IF HasPosition(d, a) THEN d.keys ELSE Append(d.keys, a)
      positions1 == [k \in DOMAIN d.positions \cup {a} |->
                       IF k = a THEN pos ELSE d.positions[k]]
      d1 == [d EXCEPT !.positions = positions1, !.keys = keys1]
      currentDeployed == SumOver(d1, GetOpenPositions(d1), "size")
      availableProfits == d.stats.totalPnL
      fromProfits == FromProfits(availableProfits, posSize)
  IN [d1 EXCEPT
        !.stats.totalTrades = @ + 1,
        !.stats.openPositions = @ + 1,
        !.stats.totalCapitalDeployed = @ + posSize,
        !.stats.peakCapitalDeployed = Max(@, currentDeployed),
        !.stats.capitalFromProfits = @ + fromProfits,
        !.stats.startingCapital = @ + FreshCapital(posSize, fromProfits)]

\* closePosition that also clears the trail stop of a position it closes for
\* another reason than the trail
ClosePosition_ClearTrail(d, a, exitPrice, reason) ==
  LET pos == d.positions[a]
      pnl == PnLOf(exitPrice, pos.entryPrice, pos.size)
      rec == [address |-> a, entry |-> pos.entryPrice, exit |-> exitPrice,
              pnl |-> pnl, reason |-> reason]
  IN [d EXCEPT
        !.positions[a].status = "exited",
        !.positions[a].exitPrice = exitPrice,
        !.positions[a].exitReason = reason,
        !.positions[a].trailPrice = IF reason = "trail" THEN @ ELSE Null,
        !.positions[a].pnl = pnl,
        !.stats.openPositions = @ - 1,
        !.stats.closedPositions = @ + 1,
        !.stats.totalPnL = @ + pnl,
        !.stats.winCount = IF pnl > 0 THEN @ + 1 ELSE @,
        !.stats.lossCount = IF pnl > 0 THEN @ ELSE @ + 1,
        !.history = Append(d.history, rec)]

\* closePosition that forgets to decrement openPositions
ClosePosition_KeepOpenCount(d, a, exitPrice, reason) ==
  LET pos == d.positions[a]
      pnl == PnLOf(exitPrice, pos.entryPrice, pos.size)
      rec == [address |-> a, entry |-> pos.entryPrice, exit |-> exitPrice,
              pnl |-> pnl, reason |-> reason]
  IN [d EXCEPT
        !.positions[a].status = "exited",
        !.positions[a].exitPrice = exitPrice,
        !.positions[a].exitReason = reason,
        !.positions[a].pnl = pnl,
        !.stats.closedPositions = @ + 1,
        !.stats.totalPnL = @ + pnl,
        !.stats.winCount = IF pnl > 0 THEN @ + 1 ELSE @,
        !.stats.lossCount = IF pnl > 0 THEN @ ELSE @ + 1,
        !.history = Append(d.history, rec)]

\* closePosition that releases the capital of the position it closes
ClosePosition_ReleaseSize(d, a, exitPrice, reason) ==
  LET pos == d.positions[a]
      pnl == PnLOf(exitPrice, pos.entryPrice, pos.size)
      rec == [address |-> a, entry |-> pos.entryPrice, exit |-> exitPrice,
              pnl |-> pnl, reason |-> reason]
  IN [d EXCEPT
        !.positions[a].status = "exited",
        !.positions[a].exitPrice = exitPrice,
        !.positions[a].exitReason = reason,
        !.positions[a].pnl = pnl,
        !.positions[a].size = 0,
        !.stats.openPositions = @ - 1,
        !.stats.closedPositions = @ + 1,
        !.stats.totalPnL = @ + pnl,
        !.stats.winCount = IF pnl > 0 THEN @ + 1 ELSE @,
        !.stats.lossCount = IF pnl > 0 THEN @ ELSE @ + 1,
        !.history = Append(d.history, rec)]

\* a truncation that keeps the oldest records
Truncate_KeepOldest(h) ==
  IF Len(h) > HistoryLimit THEN SubSeq(h, 1, HistoryLimit) ELSE h

\* if (history.length > 1000) history = history.slice(-1000)
Truncate(h) ==
  IF Len(h) > HistoryLimit
  THEN SubSeq(h, Len(h) - HistoryLimit + 1, Len(h)) ELSE h

\* a close that counts a trade that broke even as a win
IsWin_BreakEven(pnl) == pnl >= 0

\* if (pos.pnl > 0) winCount++ else lossCount++
IsWin(pnl) == pnl > 0

\* closePosition(tokenAddress, exitPrice, reason) on a present position
ClosePosition(d, a, exitPrice, reason) ==
  LET pos == d.positions[a]
      pnl == PnLOf(exitPrice, pos.entryPrice, pos.size)
      rec == [address |-> a, entry |-> pos.entryPrice, exit |-> exitPrice,
              pnl |-> pnl, reason |-> reason]
      h2 == Truncate(Append(d.history, rec))
  IN [d EXCEPT
        !.positions[a].status = "exited",
        !.positions[a].exitPrice = exitPrice,
        !.positions[a].exitReason = reason,
        !.positions[a].pnl = pnl,
        !.stats.openPositions = @ - 1,
        !.stats.closedPositions = @ + 1,
        !.stats.totalPnL = @ + pnl,
        !.stats.winCount = IF IsWin(pnl) THEN @ + 1 ELSE @,
        !.stats.lossCount = IF IsWin(pnl) THEN @ ELSE @ + 1,
        !.history = h2]

\* const stopLoss = config.stopLoss || 0.25
StopLossOf(cfg) == IF cfg.stopLoss = 0 THEN 25 ELSE cfg.stopLoss

\* the stop-loss check made only while the position is not yet trailing
StopLossHit_ActiveOnly(pos, price, cfg) ==
  /\ pos.status = "active"
  /\ price * 100 <= pos.entryPrice * (100 - StopLossOf(cfg))

\* currentMult <= 1 - stopLoss
StopLossHit(pos, price, cfg) ==
  price * 100 <= pos.entryPrice * (100 - StopLossOf(cfg))

\* the stop level computed from the default 25% whatever the configuration
StopPrice_Default(pos, cfg) == (pos.entryPrice * (100 - 25)) \div 100

\* entryPrice * (1 - stopLoss)
StopPrice(pos, cfg) == (pos.entryPrice * (100 - StopLossOf(cfg))) \div 100

\* the peak overwritten by every price
NewPeak_Last(pos, price) == price

\* the peak after "if (currentPrice > pos.peakPrice) pos.peakPrice = ..."
NewPeak(pos, price) == IF price > pos.peakPrice THEN price ELSE pos.peakPrice

\* a trail that every update of an active position activates
TrailActivates_Always(pos, price, cfg) == pos.status = "active"

\* pos.status === 'active' && currentMult >= config.trailActivation
TrailActivates(pos, price, cfg) ==
  pos.status = "active" /\ price * 100 >= pos.entryPrice * cfg.trailActivation

\* a trail stop that sits at the peak
TrailOf_AtPeak(peak, cfg) == peak

\* the trail stop computed with a fixed 5% distance
TrailOf_FivePercent(peak, cfg) == (peak * (100 - 5)) \div 100

\* peakPrice * (1 - trailDistance)
TrailOf(peak, cfg) == (peak * (100 - cfg.trailDistance)) \div 100

\* currentPrice <= pos.trailPrice
TrailHit(price, trailPrice) == price <= trailPrice

\* the guard without the test of the status
IsNoOp_MissingOnly(d, a) == ~HasPosition(d, a)

\* if (!pos || pos.status === 'exited') return null
IsNoOp(d, a) == ~HasPosition(d, a) \/ d.positions[a].status = "exited"

\* the status recomputed from the current multiple at every update
NextStatus_Recomputed(pos, price, cfg) ==
  IF price * 100 >= pos.entryPrice * cfg.trailActivation
  THEN "trailing" ELSE "active"

\* the status after the trail-activation check
NextStatus(pos, price, cfg) ==
  IF TrailActivates(pos, price, cfg) THEN "trailing" ELSE pos.status

\* updatePosition(tokenAddress, currentPrice): the document after the call
\* and what the call returns (action "null" stands for the null result)
UpdatePosition(d, a, price) ==
  IF IsNoOp(d, a)
  THEN [db |-> d, action |-> "null", reason |-> "none"]
  ELSE
    LET pos == d.positions[a]
        cfg == d.config
    IN IF StopLossHit(pos, price, cfg)
       THEN [db |-> ClosePosition(d, a, StopPrice(pos, cfg), "stop_loss"),
             action |-> "closed", reason |-> "stop_loss"]
       ELSE
         LET peak == NewPeak(pos, price)
             status1 == NextStatus(pos, price, cfg)
             trail == IF status1 = "trailing" THEN TrailOf(peak, cfg)
                      ELSE pos.trailPrice
             d1 == [d EXCEPT !.positions[a].peakPrice = peak,
                             !.positions[a].status = status1,
                             !.positions[a].trailPrice = trail]
         IN IF status1 = "trailing" /\ TrailHit(price, trail)
            THEN [db |-> ClosePosition(d1, a, trail, "trail"),
                  action |-> "closed", reason |-> "trail"]
            ELSE [db |-> [d1 EXCEPT !.positions[a].unrealizedPnL =
                                      PnLOf(price, pos.entryPrice, pos.size)],
                  action |-> "update", reason |-> "none"]

\* ------------------------------------------------------------------------
\* Engine-level specification: one SimulatorDB instance, any sequence of
\* addPosition / updatePosition calls
\* ------------------------------------------------------------------------

VARIABLES
  db,      \* the document of the instance
  last,    \* the last call: its name, arguments, result, and the position
           \* as it was before the call
  calls,   \* number of calls made
  log,     \* per address, the prices of the calls made on it, in order
           \* (the entry price of addPosition first)
  slip     \* the last exit priced with slippage: the size, the quote and
           \* what was computed from them

engineVars == << db, last, calls, log, slip >>

VARIABLES
  pinned,  \* the document held by the pinned message of the channel
  run,     \* the polling invocation: where it stands and its locals
  sig,     \* the new-signal invocation: where it stands and its locals
  runs,    \* polling invocations started
  signals  \* new-signal invocations started

sysVars == << pinned, run, sig, runs, signals >>

VARIABLES
  chan,    \* the channel: its messages, the stack of pinned messages, the
           \* next message id and the next file id
  inst,    \* a SimulatorDB instance: db, messageId, fileId
  gw       \* the last operation on the channel and what it did

storeVars == << chan, inst, gw >>

vars == << db, last, calls, log, slip, pinned, run, sig, runs, signals,
           chan, inst, gw >>

\* this.db = null of the constructor
NoDB == [null |-> TRUE]

\* no polling invocation is running
IdleRun ==
  [pc |-> "idle", i |-> 0, db |-> NoDB, open |-> << >>, market |-> << >>,
   closed |-> << >>, trailActivated |-> << >>,
   totalChecked |-> 0, totalClosed |-> 0, saveFailed |-> FALSE,
   loadFailed |-> FALSE, notifyFailed |-> FALSE, notified |-> << >>,
   status |-> "none"]

\* no new-signal invocation is running
IdleSig ==
  [pc |-> "idle", db |-> NoDB, addr |-> "a1", signalPrice |-> 0,
   livePrice |-> 0, status |-> "none"]

\* no exit priced yet
NoSlip ==
  [op |-> "none", tradeSize |-> 0, liquidity |-> 0, price |-> 0,
   slippage |-> 0, realExitPrice |-> 0]

NoCall ==
  [op |-> "none", addr |-> "a1", price |-> 0, before |-> NoPosition,
   action |-> "null", reason |-> "none"]

\* this.messageId = null
NoMsg == 0

\* this.fileId = null
NoFile == 0

\* new SimulatorDB(botToken)
NewInstance == [db |-> NoDB, messageId |-> NoMsg, fileId |-> NoFile]

\* a channel without messages and without a pinned message
EmptyChannel ==
  [msgs |-> << >>, pins |-> << >>, nextId |-> 1, nextFile |-> 1]

\* no operation on the channel yet
NoOp ==
  [op |-> "none", case |-> "none", error |-> "none", edit |-> "none",
   threw |-> FALSE, uploads |-> 0, edits |-> 0, pins |-> 0, status |-> 0]

\* the channel before the first request
StoreIdle ==
  /\ chan = EmptyChannel
  /\ inst = NewInstance
  /\ gw = NoOp

InitEngine ==
  /\ StoreIdle
  /\ db \in { FreshDB(c) : c \in Configs }
  /\ last = NoCall
  /\ calls = 0
  /\ slip = NoSlip
  /\ log = [a \in Addr |-> << >>]
  /\ pinned = FreshDB(FreshConfig)
  /\ run = IdleRun
  /\ sig = IdleSig
  /\ runs = 0
  /\ signals = 0

\* addPosition as the intake handler calls it: the address is neither a key
\* of positions nor in history, the size is config.positionSize
EngineAdd(a, entry) ==
  /\ calls < MaxCalls
  /\ ~HasPosition(db, a)
  /\ db' = AddPosition(db, a, [entryPrice |-> entry,
                               size |-> db.config.positionSize])
  /\ last' = [op |-> "add", addr |-> a, price |-> entry,
              before |-> NoPosition, action |-> "null", reason |-> "none"]
  /\ calls' = calls + 1
  /\ log' = [log EXCEPT ![a] = Append(@, entry)]
  /\ UNCHANGED << slip, sysVars, storeVars >>

\* updatePosition with any address and any price
EngineUpdate(a, price) ==
  /\ calls < MaxCalls
  /\ LET r == UpdatePosition(db, a, price)
     IN /\ db' = r.db
        /\ last' = [op |-> "update", addr |-> a, price |-> price,
                    before |-> GetPosition(db, a),
                    action |-> r.action, reason |-> r.reason]
  /\ calls' = calls + 1
  /\ log' = [log EXCEPT ![a] = Append(@, price)]
  /\ UNCHANGED << slip, sysVars, storeVars >>

NextEngine ==
  \/ \E a \in Addr, e \in EntryPrices : EngineAdd(a, e)
  \/ \E a \in Addr, p \in Prices : EngineUpdate(a, p)

SpecEngine == InitEngine /\ [][NextEngine]_vars

\* ------------------------------------------------------------------------
\* The polling handler (GET /api/check-positions)
\* ------------------------------------------------------------------------

\* a slippage without the cap
GetSlippage_Uncapped(tradeSize, liquidity) ==
  IF liquidity = 0 THEN 0 ELSE (tradeSize * 1000) \div liquidity

\* getSlippage(tradeSize, liquidity), in 1/1000
GetSlippage(tradeSize, liquidity) ==
  IF liquidity = 0 THEN 0
  ELSE Min((tradeSize * 1000) \div liquidity, 500)

\* data.price * (1 - slippage)
RealExitPrice(price, slippage) == (price * (1000 - slippage)) \div 1000

\* What "result.position.pnl" reads when the handler subtracts "the
\* non-slippage PnL": result.position is the object closePosition returned,
\* which is the object getPosition returns (dbPos); d is the document after
\* dbPos.pnl has been assigned.
ResultPositionPnl(d, a) == d.positions[a].pnl

\* the slippage adjustment of a position that updatePosition just closed
ApplySlippage(d, a, price, slippage) ==
  LET realExitPrice == RealExitPrice(price, slippage)
      pos == d.positions[a]
      pnl == PnLOf(realExitPrice, pos.entryPrice, pos.size)
      d1 == [d EXCEPT !.positions[a].exitPrice = realExitPrice,
                      !.positions[a].pnl = pnl]
  IN [d1 EXCEPT !.stats.totalPnL = (@ - ResultPositionPnl(d1, a)) + pnl]

\* a quote of the price lookup; price 0 stands for a zero or non-numeric
\* price, liquidity 0 for a missing or zero liquidity
QuotePrices == {800, 1400, 1600}

Liquidities == {0, 2500000}

Quotes == [price : QuotePrices \cup {0}, liquidity : Liquidities]

\* a test that only asks whether the lookup returned an entry
HasPrice_EntryOnly(market, a) == a \in DOMAIN market

\* const data = marketData[addr]; if (!data || !data.price) continue
HasPrice(market, a) == a \in DOMAIN market /\ market[a].price # 0

SeqToSet(q) == { q[k] : k \in DOMAIN q }

RECURSIVE UpdateLoop(_, _, _)
\* The loop over freshPositions: acc carries the document, dbChanged and
\* the lists closed and trailActivated; fresh is what is left to visit.
UpdateLoop(acc, fresh, market) ==
  IF fresh = << >> THEN acc
  ELSE
    LET a == Head(fresh)
        rest == Tail(fresh)
    IN IF ~HasPrice(market, a) THEN UpdateLoop(acc, rest, market)
       ELSE
         LET data == market[a]
             pos == acc.db.positions[a]
             slippage == GetSlippage(pos.size, data.liquidity)
             previousStatus == pos.status
             r == UpdatePosition(acc.db, a, data.price)
         IN IF r.action = "null" THEN UpdateLoop(acc, rest, market)
            ELSE IF r.action = "closed"
            THEN
              LET d2 == ApplySlippage(r.db, a, data.price, slippage)
                  c == [address |-> a, entryPrice |-> pos.entryPrice,
                        exitPrice |-> d2.positions[a].exitPrice,
                        pnl |-> d2.positions[a].pnl, reason |-> r.reason,
                        slippage |-> slippage]
              IN UpdateLoop([acc EXCEPT !.db = d2, !.dbChanged = TRUE,
                                        !.closed = Append(@, c)],
                            rest, market)
            ELSE IF r.db.positions[a].status = "trailing"
                    /\ previousStatus = "active"
            THEN UpdateLoop([acc EXCEPT !.db = r.db, !.dbChanged = TRUE,
                                        !.trailActivated = Append(@, a)],
                            rest, market)
            ELSE UpdateLoop([acc EXCEPT !.db = r.db, !.dbChanged = TRUE],
                            rest, market)

\* const iterations = 3
Iterations == 3

\* the end of a loop body: the next iteration, or the response after the
\* last one
NextIteration(r) ==
  IF r.i + 1 < Iterations
  THEN [r EXCEPT !.i = @ + 1, !.pc = "load1", !.open = << >>,
                 !.market = << >>, !.closed = << >>,
                 !.trailActivated = << >>]
  ELSE [r EXCEPT !.i = @ + 1, !.pc = "done", !.status = "ok",
                 !.open = << >>, !.market = << >>]

\* a request arrives: new SimulatorDB(botToken)
RunStart ==
  /\ run.pc \in {"idle", "done"}
  /\ runs < MaxRuns
  /\ run' = [IdleRun EXCEPT !.pc = "load1"]
  /\ runs' = runs + 1
  /\ UNCHANGED << pinned, sig, signals, engineVars, storeVars >>

\* the first load of an iteration and the openPositions it reads
RunLoad1 ==
  /\ run.pc = "load1"
  /\ LET d == pinned
         open == GetOpenPositions(d)
     IN run' = IF open = << >>
               THEN NextIteration([run EXCEPT !.db = d])
               ELSE [run EXCEPT !.db = d, !.open = open, !.pc = "fetch"]
  /\ UNCHANGED << pinned, sig, runs, signals, engineVars, storeVars >>

\* fetchPrices(openPositions): quotes, drawn from Q, for some of the
\* positions asked for
FetchPrices(Q) ==
  /\ run.pc = "fetch"
  /\ \E S \in SUBSET SeqToSet(run.open) :
       \E m \in [S -> Q] :
         run' = [run EXCEPT !.market = m, !.pc = "load2"]
  /\ UNCHANGED << pinned, sig, runs, signals, engineVars, storeVars >>

RunFetch == FetchPrices(Quotes)

\* a second load that keeps the document of the first load
SecondLoad_Stale(r, store) == r.db

\* await db.load() after fetchPrices: the document the store holds now
SecondLoad(r, store) == store

\* a handler that saves at the end of every iteration
ShouldSave_Always(acc) == TRUE

\* if (dbChanged) { await db.save() ... }
ShouldSave(acc) == acc.dbChanged

\* the second load, the loop over freshPositions, and the decision to save
RunLoad2 ==
  /\ run.pc = "load2"
  /\ LET d == SecondLoad(run, pinned)
         acc == UpdateLoop([db |-> d, dbChanged |-> FALSE, closed |-> << >>,
                            trailActivated |-> << >>],
                           GetOpenPositions(d), run.market)
     IN run' = IF ShouldSave(acc)
               THEN [run EXCEPT !.db = acc.db, !.closed = acc.closed,
                                !.trailActivated = acc.trailActivated,
                                !.pc = "save"]
               ELSE NextIteration([run EXCEPT
                                     !.db = d,
                                     !.totalChecked = Len(run.open)])
  /\ UNCHANGED << pinned, sig, runs, signals, engineVars, storeVars >>

\* a save that writes the writer's stats into the stored document and
\* leaves the stored positions and history
Persist_StatsOnly(store, d) == [store EXCEPT !.stats = d.stats]

\* updateFile(messageId, this.db, filename): JSON.stringify of the whole
\* in-memory document replaces the file of the pinned message
Persist(store, d) == d

\* "for (const c of closed) { await sendTelegramMessage(...) }": the
\* addresses of the close notifications, in the order they are sent
CloseMessages(closed) == [k \in DOMAIN closed |-> closed[k].address]

\* a handler whose failed save ends the run with an error
AfterSave_Abort(r, ok) ==
  IF ok
  THEN NextIteration([r EXCEPT !.totalClosed = @ + Len(r.closed),
                               !.totalChecked = Len(r.open)])
  ELSE [r EXCEPT !.pc = "done", !.status = "error", !.saveFailed = TRUE]

\* what follows the try/catch around db.save(): the notifications, the
\* counts and the next iteration, whether the save succeeded (ok) or threw
AfterSave(r, ok) ==
  NextIteration([r EXCEPT !.totalClosed = @ + Len(r.closed),
                          !.totalChecked = Len(r.open),
                          !.notified = @ \o CloseMessages(r.closed),
                          !.saveFailed = @ \/ ~ok])

\* db.save() of the iteration succeeds
RunSave ==
  /\ run.pc = "save"
  /\ pinned' = Persist(pinned, run.db)
  /\ run' = AfterSave(run, TRUE)
  /\ UNCHANGED << sig, runs, signals, engineVars, storeVars >>

\* db.save() of the iteration throws; the store keeps what it held
RunSaveFail ==
  /\ run.pc = "save"
  /\ run' = AfterSave(run, FALSE)
  /\ UNCHANGED << pinned, sig, runs, signals, engineVars, storeVars >>

\* ------------------------------------------------------------------------
\* The intake handler (POST /api/new-signal)
\* ------------------------------------------------------------------------

\* const existing = db.getPosition(tokenAddress); if (existing) ...
Existing(d, a) == HasPosition(d, a)

\* db.db.history?.find(h => h.address === tokenAddress)
InHistory(d, a) == \E k \in DOMAIN d.history : d.history[k].address = a

\* the older handler's test: only an open position blocks the entry
AlreadyKnown_OpenOnly(d, a) ==
  HasPosition(d, a) /\ d.positions[a].status # "exited"

\* the request is answered 'exists'
AlreadyKnown(d, a) == Existing(d, a) \/ InHistory(d, a)

\* prices the request and the live lookup can carry; 0 stands for none
SignalPrices == {0, 2000}

LivePrices == {0, 1000}

\* a request with a tokenAddress arrives
SigStart(a, signalPrice) ==
  /\ sig.pc \in {"idle", "done"}
  /\ signals < MaxSignals
  /\ sig' = [IdleSig EXCEPT !.pc = "load", !.addr = a,
                            !.signalPrice = signalPrice]
  /\ signals' = signals + 1
  /\ UNCHANGED << pinned, run, runs, engineVars, storeVars >>

\* db.load() and the test for an existing position or history record
SigLoad ==
  /\ sig.pc = "load"
  /\ sig' = IF AlreadyKnown(pinned, sig.addr)
            THEN [sig EXCEPT !.db = pinned, !.pc = "done",
                             !.status = "exists"]
            ELSE [sig EXCEPT !.db = pinned, !.pc = "price"]
  /\ UNCHANGED << pinned, run, runs, signals, engineVars, storeVars >>

\* fetchLivePrice, the choice of the entry price, and addPosition
SigPrice(livePrice) ==
  /\ sig.pc = "price"
  /\ LET entryPrice == IF livePrice > 0 THEN livePrice ELSE sig.signalPrice
     IN sig' = IF entryPrice = 0
               THEN [sig EXCEPT !.pc = "done", !.status = "error",
                                !.livePrice = livePrice]
               ELSE [sig EXCEPT
                       !.livePrice = livePrice,
                       !.db = AddPosition(sig.db, sig.addr,
                                  [entryPrice |-> entryPrice,
                                   size |-> sig.db.config.positionSize]),
                       !.pc = "save"]
  /\ UNCHANGED << pinned, run, runs, signals, engineVars, storeVars >>

\* db.save(), then the notification and the 'opened' response
SigSave ==
  /\ sig.pc = "save"
  /\ pinned' = Persist(pinned, sig.db)
  /\ sig' = [sig EXCEPT !.pc = "done", !.status = "opened"]
  /\ UNCHANGED << run, runs, signals, engineVars, storeVars >>

Init ==
  /\ StoreIdle
  /\ pinned \in { FreshDB(c) : c \in SysConfigs }
  /\ run = IdleRun
  /\ sig = IdleSig
  /\ runs = 0
  /\ signals = 0
  /\ db = FreshDB(FreshConfig)
  /\ last = NoCall
  /\ calls = 0
  /\ slip = NoSlip
  /\ log = [a \in Addr |-> << >>]

Next ==
  \/ RunStart
  \/ RunLoad1
  \/ RunFetch
  \/ RunLoad2
  \/ RunSave
  \/ \E a \in Addr, sp \in SignalPrices : SigStart(a, sp)
  \/ SigLoad
  \/ \E lp \in LivePrices : SigPrice(lp)
  \/ SigSave

Spec == Init /\ [][Next]_vars

\* ------------------------------------------------------------------------
\* The restore handler (POST /api/restore-db): the merge of a backup into
\* the loaded document
\* ------------------------------------------------------------------------

RECURSIVE RestorePositions(_, _, _)
\* "for (const [addr, pos] of Object.entries(oldDB.positions))": the open
\* positions of the backup that the document does not have are put back
RestorePositions(d, old, ks) ==
  IF ks = << >> THEN d
  ELSE
    LET a == Head(ks)
        d1 == IF ~HasPosition(d, a) /\ IsOpen(old.positions[a])
              THEN [d EXCEPT
                      !.positions = [k \in DOMAIN d.positions \cup {a} |->
                                       IF k = a THEN old.positions[a]
                                       ELSE d.positions[k]],
                      !.keys = Append(@, a)]
              ELSE d
    IN RestorePositions(d1, old, Tail(ks))

\* the merged document that the restore handler saves
RestoreDB(d, old) ==
  LET d1 == [d EXCEPT
               !.stats.totalTrades = @ + old.stats.totalTrades,
               !.stats.winCount = @ + old.stats.winCount,
               !.stats.lossCount = @ + old.stats.lossCount,
               !.stats.closedPositions = @ + old.stats.closedPositions,
               !.stats.totalPnL = @ + old.stats.totalPnL,
               !.stats.totalCapitalDeployed =
                  @ + old.stats.totalCapitalDeployed,
               !.stats.capitalFromProfits = @ + old.stats.capitalFromProfits,
               !.stats.startingCapital =
                  IF old.stats.startingCapital # 0
                  THEN old.stats.startingCapital ELSE @,
               !.stats.peakCapitalDeployed =
                  Max(@, old.stats.peakCapitalDeployed)]
      d2 == RestorePositions(d1, old, old.keys)
      d3 == [d2 EXCEPT !.history = old.history \o @]
  IN [d3 EXCEPT !.stats.openPositions = Len(GetOpenPositions(d3))]

\* a backup in which a2 was entered at 1.00 and stopped out
Backup(cfg) ==
  UpdatePosition(AddPosition(FreshDB(cfg), "a2",
                             [entryPrice |-> 1000, size |-> 0]),
                 "a2", 800).db

\* The system started from a fresh document or from a fresh document into
\* which a backup was restored (a2 is then in history and not in positions).
InitIntake ==
  /\ StoreIdle
  /\ pinned \in { FreshDB(c) : c \in SysConfigs }
                  \cup { RestoreDB(FreshDB(c), Backup(c)) : c \in SysConfigs }
  /\ run = IdleRun
  /\ sig = IdleSig
  /\ runs = 0
  /\ signals = 0
  /\ db = FreshDB(FreshConfig)
  /\ last = NoCall
  /\ calls = 0
  /\ slip = NoSlip
  /\ log = [a \in Addr |-> << >>]

SpecIntake == InitIntake /\ [][Next]_vars

\* ------------------------------------------------------------------------
\* The intake handler alone, with any number as the supplied entry price
\* ------------------------------------------------------------------------

\* entryPrice of the request body after parseFloat(signalPrice) || 0
SuppliedPrices == SignalPrices \cup {0 - 2000}

\* tokenAddress of the request body; "" stands for a missing or empty one
TokenAddresses == Addr \cup {""}

\* a handler that takes every request to the load
MissingFields_Never(a) == FALSE

\* if (!tokenAddress)
MissingFields(a) == a = ""

\* a request arrives, with or without a tokenAddress; without one it is
\* answered 400 'Missing required fields' before new SimulatorDB
SigArrive(a, signalPrice) ==
  /\ sig.pc \in {"idle", "done"}
  /\ signals < MaxSignals
  /\ sig' = IF MissingFields(a)
            THEN [IdleSig EXCEPT !.pc = "done", !.addr = a,
                                 !.status = "rejected"]
            ELSE [IdleSig EXCEPT !.pc = "load", !.addr = a,
                                 !.signalPrice = signalPrice]
  /\ signals' = signals + 1
  /\ UNCHANGED << pinned, run, runs, engineVars, storeVars >>

NextSignal ==
  \/ \E a \in TokenAddresses, sp \in SuppliedPrices : SigArrive(a, sp)
  \/ SigLoad
  \/ \E lp \in LivePrices : SigPrice(lp)
  \/ SigSave

SpecSignal == Init /\ [][NextSignal]_vars

\* ------------------------------------------------------------------------
\* The engine on documents whose history is at its bound: a backup with a
\* long history restored into a fresh document, or into one with a close
\* ------------------------------------------------------------------------

\* n records of trades closed long ago, told apart by their pnl
OldHistory(n) ==
  [k \in 1..n |-> [address |-> "old", entry |-> 1000, exit |-> 850,
                   pnl |-> 0 - k, reason |-> "stop_loss"]]

\* a backup without positions whose history holds n records
LongBackup(cfg, n) ==
  [FreshDB(cfg) EXCEPT !.history = OldHistory(n),
                       !.stats.totalTrades = n,
                       !.stats.closedPositions = n,
                       !.stats.lossCount = n]

\* prices of the updates made on these documents
HistoryPrices == {800, 1560}

InitHistory ==
  /\ StoreIdle
  /\ db \in { RestoreDB(FreshDB(FreshConfig),
                         LongBackup(FreshConfig, HistoryLimit - 1)),
               RestoreDB(FreshDB(FreshConfig),
                         LongBackup(FreshConfig, HistoryLimit)),
               RestoreDB(Backup(FreshConfig),
                         LongBackup(FreshConfig, HistoryLimit)) }
  /\ last = NoCall
  /\ calls = 0
  /\ slip = NoSlip
  /\ log = [a \in Addr |-> << >>]
  /\ pinned = FreshDB(FreshConfig)
  /\ run = IdleRun
  /\ sig = IdleSig
  /\ runs = 0
  /\ signals = 0

\* the restore handler merges a backup with one closed trade into the
\* document
EngineRestore ==
  /\ calls < MaxCalls
  /\ db' = RestoreDB(db, Backup(db.config))
  /\ last' = [NoCall EXCEPT !.op = "restore"]
  /\ calls' = calls + 1
  /\ UNCHANGED << log, slip, sysVars, storeVars >>

NextHistory ==
  \/ \E a \in Addr, e \in EntryPrices : EngineAdd(a, e)
  \/ \E a \in Addr, p \in HistoryPrices : EngineUpdate(a, p)
  \/ EngineRestore

SpecHistory == InitHistory /\ [][NextHistory]_vars

\* ------------------------------------------------------------------------
\* The engine under configurations on both sides of trailActivation = 1
\* ------------------------------------------------------------------------

\* trailing starts at 0.9x, below the entry price
EarlyTrailConfig == [FreshConfig EXCEPT !.trailActivation = 90]

\* trailing starts at the entry price
EntryTrailConfig == [FreshConfig EXCEPT !.trailActivation = 100]

TrailConfigs == { FreshConfig, EntryTrailConfig, EarlyTrailConfig }

\* a stop-loss price, a price between the stop level and the entry price,
\* the entry price, a price above it, a price above the default activation
TrailPrices == {800, 950, 1000, 1400, 1600}

InitTrail ==
  /\ StoreIdle
  /\ db \in { FreshDB(c) : c \in TrailConfigs }
  /\ last = NoCall
  /\ calls = 0
  /\ slip = NoSlip
  /\ log = [a \in Addr |-> << >>]
  /\ pinned = FreshDB(FreshConfig)
  /\ run = IdleRun
  /\ sig = IdleSig
  /\ runs = 0
  /\ signals = 0

NextTrail ==
  \/ \E a \in Addr, e \in EntryPrices : EngineAdd(a, e)
  \/ \E a \in Addr, p \in TrailPrices : EngineUpdate(a, p)

SpecTrail == InitTrail /\ [][NextTrail]_vars

\* ------------------------------------------------------------------------
\* The engine from the fresh document, with wins smaller and larger than
\* the size of a position
\* ------------------------------------------------------------------------

\* a stop-loss price, a price that hits the trail stops, a peak whose trail
\* stop locks in 130 USD and one whose trail stop locks in 272.50 USD
CapitalPrices == {800, 1400, 1600, 2200}

InitCapital ==
  /\ StoreIdle
  /\ db = FreshDB(FreshConfig)
  /\ last = NoCall
  /\ calls = 0
  /\ slip = NoSlip
  /\ log = [a \in Addr |-> << >>]
  /\ pinned = FreshDB(FreshConfig)
  /\ run = IdleRun
  /\ sig = IdleSig
  /\ runs = 0
  /\ signals = 0

NextCapital ==
  \/ \E a \in Addr, e \in EntryPrices : EngineAdd(a, e)
  \/ \E a \in Addr, p \in CapitalPrices : EngineUpdate(a, p)

SpecCapital == InitCapital /\ [][NextCapital]_vars

\* ------------------------------------------------------------------------
\* Closes of every sign on a full history: a document whose configuration
\* lets a trail stop sit exactly at the entry price
\* ------------------------------------------------------------------------

\* trailing from 1.25x, 20% below the peak: a peak of 1.25 puts the trail
\* stop at the entry price 1.00
BreakEvenConfig ==
  [FreshConfig EXCEPT !.trailActivation = 125, !.trailDistance = 20]

\* a stop-loss price, the entry price, the two peaks
ClosePrices == {800, 1000, 1250, 1560}

InitClose ==
  /\ StoreIdle
  /\ db = RestoreDB(FreshDB(BreakEvenConfig),
                    LongBackup(BreakEvenConfig, HistoryLimit))
  /\ last = NoCall
  /\ calls = 0
  /\ slip = NoSlip
  /\ log = [a \in Addr |-> << >>]
  /\ pinned = FreshDB(FreshConfig)
  /\ run = IdleRun
  /\ sig = IdleSig
  /\ runs = 0
  /\ signals = 0

NextClose ==
  \/ \E a \in Addr, e \in EntryPrices : EngineAdd(a, e)
  \/ \E a \in Addr, p \in ClosePrices : EngineUpdate(a, p)

SpecClose == InitClose /\ [][NextClose]_vars

\* ------------------------------------------------------------------------
\* Polling runs whose saves can fail, over a document that holds positions
\* ------------------------------------------------------------------------

\* the document after the intake handler opened a1, and then a2
Opened(cfg) ==
  LET one == AddPosition(FreshDB(cfg), "a1", [entryPrice |-> 1000, size |-> 0])
  IN { one, AddPosition(one, "a2", [entryPrice |-> 1000, size |-> 0]) }

InitSaveFail ==
  /\ StoreIdle
  /\ pinned \in UNION { Opened(c) : c \in SysConfigs }
  /\ run = IdleRun
  /\ sig = IdleSig
  /\ runs = 0
  /\ signals = 0
  /\ db = FreshDB(FreshConfig)
  /\ last = NoCall
  /\ calls = 0
  /\ slip = NoSlip
  /\ log = [a \in Addr |-> << >>]

NextSaveFail ==
  \/ RunStart
  \/ RunLoad1
  \/ RunFetch
  \/ RunLoad2
  \/ RunSave
  \/ RunSaveFail

SpecSaveFail == InitSaveFail /\ [][NextSaveFail]_vars

\* ------------------------------------------------------------------------
\* Polling runs under every fault of the network: loads, saves and
\* notifications that throw
\* ------------------------------------------------------------------------

\* "catch (error) { return res.status(500).json({ error: error.message }) }"
\* around the whole loop
Caught(r) == [r EXCEPT !.pc = "done", !.status = "error"]

\* db.load() throws, at the start of an iteration or after fetchPrices
RunLoadFail ==
  /\ run.pc \in {"load1", "load2"}
  /\ run' = Caught([run EXCEPT !.loadFailed = TRUE])
  /\ UNCHANGED << pinned, sig, runs, signals, engineVars, storeVars >>

\* db.save() was tried (ok: it succeeded) and one of the calls of
\* sendTelegramMessage that follow throws: it is not inside a try of its own
RunNotifyFail(ok) ==
  /\ run.pc = "save"
  /\ Len(run.trailActivated) + Len(run.closed) > 0
  /\ pinned' = IF ok THEN Persist(pinned, run.db) ELSE pinned
  /\ run' = Caught([run EXCEPT !.saveFailed = @ \/ ~ok,
                               !.notifyFailed = TRUE])
  /\ UNCHANGED << sig, runs, signals, engineVars, storeVars >>

\* the steps of a running invocation
PollStep ==
  \/ RunLoad1
  \/ RunLoadFail
  \/ RunFetch
  \/ RunLoad2
  \/ RunSave
  \/ RunSaveFail
  \/ \E ok \in BOOLEAN : RunNotifyFail(ok)

NextPoll ==
  \/ RunStart
  \/ PollStep

\* an invocation that has started keeps running: every await of the handler
\* settles (the host's fetch resolves or rejects)
SpecPoll == InitSaveFail /\ [][NextPoll]_vars /\ WF_vars(PollStep)

\* ------------------------------------------------------------------------
\* The pricing of an exit alone: getSlippage and the exit price the handler
\* derives from it, over sizes, liquidities and quoted prices
\* ------------------------------------------------------------------------

\* position sizes (1/1000 USD)
TradeSizes == {0, 100000, 250000, 500000}

\* pool liquidities (1/1000 USD); 0 stands for a missing or zero liquidity
PoolLiquidities == {0, 250000, 500000, 1000000, 2500000}

\* quoted prices (1/1000 USD)
QuotedPrices == {1000, 2000, 3000, 4000, 5000, 6000}

\* const slippage = getSlippage(pos.size, data.liquidity);
\* const realExitPrice = data.price * (1 - slippage)
PriceExit(tradeSize, liquidity, price) ==
  /\ LET slippage == GetSlippage(tradeSize, liquidity)
     IN slip' = [op |-> "getSlippage", tradeSize |-> tradeSize,
                 liquidity |-> liquidity, price |-> price,
                 slippage |-> slippage,
                 realExitPrice |-> RealExitPrice(price, slippage)]
  /\ UNCHANGED << db, last, calls, log, sysVars, storeVars >>

NextSlippage ==
  \E t \in TradeSizes, l \in PoolLiquidities, p \in QuotedPrices :
    PriceExit(t, l, p)

SpecSlippage == InitEngine /\ [][NextSlippage]_vars

\* ------------------------------------------------------------------------
\* Polling runs in a market that gaps down: a quote above the trail
\* activation, then a quote below the entry price and above the stop-loss
\* ------------------------------------------------------------------------

GapPrices == {900, 1600}

GapQuotes == [price : GapPrices, liquidity : Liquidities]

RunFetchGap == FetchPrices(GapQuotes)

NextGap ==
  \/ RunStart
  \/ RunLoad1
  \/ RunFetchGap
  \/ RunLoad2
  \/ RunSave

SpecGap == InitSaveFail /\ [][NextGap]_vars

\* ------------------------------------------------------------------------
\* The channel gateway: SimulatorDB.load and SimulatorDB.save against the
\* messages of the channel.  A message is [kind, content, file] with kind
\* "db" (a document named trading-simulator-db.json), "doc" (a document of
\* another name) or "text" (not a document).
\* ------------------------------------------------------------------------

\* message ids the channel can hand out
MaxMessages == 2

\* file ids the channel can hand out
MaxFiles == 3

\* chat.pinned_message: the message pinned last that still exists
PinnedMessage(ch) ==
  IF ch.pins = << >> THEN NoMsg ELSE ch.pins[Len(ch.pins)]

\* the older load(): any pinned document is the DB, anything else is no pin
PinnedCase_Old(ch) ==
  IF ch.pins = << >> THEN "none"
  ELSE IF ch.msgs[PinnedMessage(ch)].kind = "text" THEN "none" ELSE "db"

\* the branch load() takes on chat.pinned_message
PinnedCase(ch) ==
  IF ch.pins = << >> THEN "none"
  ELSE LET m == ch.msgs[PinnedMessage(ch)]
       IN IF m.kind = "text" THEN "not_document"
          ELSE IF m.kind = "db" THEN "db" ELSE "foreign"

\* what an operation did: the instance and the channel after it, the
\* request that threw ("none" when it returned), the answer to its edit
\* request ("none" when it made none), and the sendDocument,
\* editMessageMedia and pinChatMessage calls that succeeded
Outcome(i, c, error, edit, uploads, edits, pins) ==
  [inst |-> i, chan |-> c, error |-> error, edit |-> edit,
   uploads |-> uploads, edits |-> edits, pins |-> pins]

\* uploadFile(this.db, filename), messageId/fileId, pinChatMessage
UploadAndPin(i, c, resp, edit) ==
  IF resp.upload # "ok" THEN Outcome(i, c, "upload", edit, 0, 0, 0)
  ELSE LET id == c.nextId
           f == c.nextFile
           m == [kind |-> "db", content |-> i.db, file |-> f]
           c1 == [c EXCEPT !.msgs = [k \in DOMAIN c.msgs \cup {id} |->
                                       IF k = id THEN m ELSE c.msgs[k]],
                           !.nextId = @ + 1, !.nextFile = @ + 1]
           i1 == [i EXCEPT !.messageId = id, !.fileId = f]
       IN IF resp.pin # "ok" THEN Outcome(i1, c1, "pin", edit, 1, 0, 0)
          ELSE Outcome(i1, [c1 EXCEPT !.pins = Append(@, id)],
                       "none", edit, 1, 0, 1)

\* a save for which 'message is not modified' is an error like any other
NotModified_Never(edit) == FALSE

\* e.message.includes('message is not modified')
NotModified(edit) == edit = "not_modified"

\* a save that never takes the message for lost
MessageGone_Never(edit) == FALSE

\* e.message.includes('message to edit not found') ||
\* e.message.includes('chat not found')
MessageGone(edit) == edit \in {"not_found", "chat_not_found"}

\* save(); resp holds the answers of the channel to editMessageMedia,
\* sendDocument and pinChatMessage.  generateSummary() reads this.db.stats
\* before any request is sent, so it throws when this.db is null.
SaveOp(i, c, resp) ==
  IF i.db = NoDB THEN Outcome(i, c, "summary", "none", 0, 0, 0)
  ELSE IF i.messageId # NoMsg
  THEN IF resp.edit = "ok"
       THEN LET f == c.nextFile
            IN Outcome([i EXCEPT !.fileId = f],
                       [c EXCEPT !.msgs[i.messageId].content = i.db,
                                 !.msgs[i.messageId].file = f,
                                 !.nextFile = @ + 1],
                       "none", resp.edit, 0, 1, 0)
       ELSE IF NotModified(resp.edit)
       THEN Outcome(i, c, "none", resp.edit, 0, 0, 0)
       ELSE IF MessageGone(resp.edit)
       THEN UploadAndPin(i, c, resp, resp.edit)
       ELSE Outcome(i, c, "edit", resp.edit, 0, 0, 0)
  ELSE UploadAndPin(i, c, resp, "none")

\* the end of load(): this.db = { ... fresh ... }; await this.save()
FreshInit(i, c, resp) ==
  SaveOp([i EXCEPT !.db = FreshDB(FreshConfig)], c, resp)

\* load(); resp also holds the answers to getChat and to the download
LoadOp(i, c, resp) ==
  IF resp.chat # "ok" THEN Outcome(i, c, "getChat", "none", 0, 0, 0)
  ELSE LET case == PinnedCase(c)
           m == c.msgs[PinnedMessage(c)]
       IN IF case = "db"
          THEN IF resp.download = "ok"
               THEN Outcome([db |-> m.content,
                             messageId |-> PinnedMessage(c),
                             fileId |-> m.file],
                            c, "none", "none", 0, 0, 0)
               ELSE FreshInit(i, c, resp)
          ELSE IF case = "none" THEN FreshInit(i, c, resp)
          ELSE Outcome(i, c, "foreign", "none", 0, 0, 0)

\* the answers editMessageMedia can give for the instance's message
EditAnswers(i, c) ==
  IF i.messageId = NoMsg THEN {"none"}
  ELSE IF i.messageId \in DOMAIN c.msgs
  THEN {"ok", "not_modified", "canceled", "chat_not_found", "other"}
  ELSE {"not_found", "chat_not_found", "other"}

\* the answers of the channel to the requests of one load() or save(); a
\* request that cannot be made after a failed one has the answer "none"
Answers(i, c) ==
  { resp \in [chat : {"ok", "fail"}, download : {"ok", "fail", "none"},
              edit : EditAnswers(i, c), upload : {"ok", "fail"},
              pin : {"ok", "fail", "none"}] :
      /\ (resp.download = "none") = (resp.chat = "fail")
      /\ (resp.pin = "none") = (resp.upload = "fail") }

\* what a load() met: no answer from getChat, no pin, a text message, a
\* document of another name, the DB file, or a DB file that cannot be read
Seen(c, resp) ==
  IF resp.chat # "ok" THEN "chat_failed"
  ELSE IF c.pins = << >> THEN "none"
  ELSE LET kind == c.msgs[PinnedMessage(c)].kind
       IN IF kind = "db"
          THEN (IF resp.download = "ok" THEN "db" ELSE "corrupt")
          ELSE kind

\* the record of an operation with outcome r
Done(op, case, r, status) ==
  [op |-> op, case |-> case, error |-> r.error, edit |-> r.edit,
   threw |-> r.error # "none", uploads |-> r.uploads, edits |-> r.edits,
   pins |-> r.pins, status |-> status]

\* the channel has handed out no more ids than it can
Within(c) == c.nextId <= MaxMessages + 1 /\ c.nextFile <= MaxFiles + 1

\* the outcomes load() can have, each with its record
Loads(i, c) ==
  { [r |-> LoadOp(i, c, resp),
     g |-> Done("load", Seen(c, resp), LoadOp(i, c, resp), 0)] :
      resp \in Answers(i, c) }

\* the outcomes save() can have, each with its record
Saves(i, c) ==
  { [r |-> SaveOp(i, c, resp),
     g |-> Done("save", "none", SaveOp(i, c, resp), 0)] :
      resp \in { x \in Answers(i, c) : x.chat = "ok" /\ x.download = "ok" } }

\* a handler starts: const db = new SimulatorDB(botToken)
GwNew ==
  /\ inst # NewInstance
  /\ inst' = NewInstance
  /\ gw' = [NoOp EXCEPT !.op = "new"]
  /\ UNCHANGED << chan, engineVars, sysVars >>

\* await db.load()
GwLoad ==
  /\ \E o \in Loads(inst, chan) :
       /\ Within(o.r.chan)
       /\ inst' = o.r.inst
       /\ chan' = o.r.chan
       /\ gw' = o.g
  /\ UNCHANGED << engineVars, sysVars >>

\* the addresses the handlers of this part open positions on
StoreAddr == {"a1"}

\* db.addPosition(tokenAddress, ...) on the loaded document
GwAdd(a) ==
  /\ inst.db # NoDB
  /\ ~HasPosition(inst.db, a)
  /\ inst' = [inst EXCEPT
                !.db = AddPosition(@, a, [entryPrice |-> 1000, size |-> 0])]
  /\ gw' = [NoOp EXCEPT !.op = "add"]
  /\ UNCHANGED << chan, engineVars, sysVars >>

\* await db.save() of a handler that has loaded
GwSave ==
  /\ inst.db # NoDB
  /\ \E o \in Saves(inst, chan) :
       /\ Within(o.r.chan)
       /\ inst' = o.r.inst
       /\ chan' = o.r.chan
       /\ gw' = o.g
  /\ UNCHANGED << engineVars, sysVars >>

\* the confirm field of a reset request; "none" stands for a missing or
\* different value
Confirms == {"RESET", "none"}

\* the reset handler (POST /api/reset): without the token 400; with it a new
\* instance whose data property is set (this.db stays null), save(), then
\* 200, or 500 when save() throws
Reset(confirm) ==
  /\ IF confirm # "RESET"
     THEN /\ gw' = [NoOp EXCEPT !.op = "reset", !.case = confirm,
                                !.status = 400]
          /\ UNCHANGED << inst, chan >>
     ELSE \E o \in Saves(NewInstance, chan) :
            /\ Within(o.r.chan)
            /\ inst' = o.r.inst
            /\ chan' = o.r.chan
            /\ gw' = [o.g EXCEPT !.op = "reset", !.case = confirm,
                                 !.status = IF o.r.error # "none" THEN 500
                                            ELSE 200]
  /\ UNCHANGED << engineVars, sysVars >>

\* kinds of message somebody else pins in the channel
ForeignKinds == {"text", "doc"}

\* somebody pins a message of their own
EnvPin(kind) ==
  /\ chan.nextId <= MaxMessages
  /\ kind = "doc" => chan.nextFile <= MaxFiles
  /\ LET id == chan.nextId
         m == [kind |-> kind, content |-> NoDB,
               file |-> IF kind = "doc" THEN chan.nextFile ELSE NoFile]
     IN chan' = [chan EXCEPT
                   !.msgs = [k \in DOMAIN chan.msgs \cup {id} |->
                               IF k = id THEN m ELSE chan.msgs[k]],
                   !.pins = Append(@, id),
                   !.nextId = @ + 1,
                   !.nextFile = IF kind = "doc" THEN @ + 1 ELSE @]
  /\ gw' = [NoOp EXCEPT !.op = "env"]
  /\ UNCHANGED << inst, engineVars, sysVars >>

\* somebody deletes a message
EnvDelete(id) ==
  /\ id \in DOMAIN chan.msgs
  /\ chan' = [chan EXCEPT
                !.msgs = [k \in DOMAIN chan.msgs \ {id} |-> chan.msgs[k]],
                !.pins = SelectSeq(@, LAMBDA k : k # id)]
  /\ gw' = [NoOp EXCEPT !.op = "env"]
  /\ UNCHANGED << inst, engineVars, sysVars >>

\* somebody unpins the pinned message
EnvUnpin ==
  /\ chan.pins # << >>
  /\ chan' = [chan EXCEPT !.pins = SubSeq(@, 1, Len(@) - 1)]
  /\ gw' = [NoOp EXCEPT !.op = "env"]
  /\ UNCHANGED << inst, engineVars, sysVars >>

InitStore ==
  /\ StoreIdle
  /\ pinned = FreshDB(FreshConfig)
  /\ run = IdleRun
  /\ sig = IdleSig
  /\ runs = 0
  /\ signals = 0
  /\ db = FreshDB(FreshConfig)
  /\ last = NoCall
  /\ calls = 0
  /\ slip = NoSlip
  /\ log = [a \in Addr |-> << >>]

NextStore ==
  \/ GwNew
  \/ GwLoad
  \/ \E a \in StoreAddr : GwAdd(a)
  \/ GwSave
  \/ \E confirm \in Confirms : Reset(confirm)
  \/ \E kind \in ForeignKinds : EnvPin(kind)
  \/ \E id \in 1..MaxMessages : EnvDelete(id)
  \/ EnvUnpin

SpecStore == InitStore /\ [][NextStore]_vars

\* ------------------------------------------------------------------------
\* Properties of the engine
\* ------------------------------------------------------------------------

\* the position the last call was made on, after the call
LastPos == GetPosition(db, last.addr)

\* the stop-loss fraction the engine works with (percent)
stopLoss == StopLossOf(db.config)

\* C2: stop-loss precedence.  When updatePosition is called on a trailing
\* position with a price P such that P / entryPrice <= 1 - stopLoss, the
\* position is closed with exitReason stop_loss and
\* exitPrice = entryPrice * (1 - stopLoss), never with reason trail.
C2_StopLossPrecedence ==
  ( /\ last.op = "update"
    /\ last.before.status = "trailing"
    /\ last.price * 100 <= last.before.entryPrice * (100 - stopLoss) )
  => ( /\ last.action = "closed"
       /\ last.reason = "stop_loss"
       /\ LastPos.status = "exited"
       /\ LastPos.exitReason = "stop_loss"
       /\ LastPos.exitPrice * 100 = LastPos.entryPrice * (100 - stopLoss) )

\* a trailing position whose trail stop and stop-loss level were both
\* breached by the price of the last update
C2_Witness ==
  /\ last.op = "update"
  /\ last.before.status = "trailing"
  /\ last.price * 100 <= last.before.entryPrice * (100 - stopLoss)
  /\ last.price <= last.before.trailPrice
  /\ LastPos.status = "exited"

AllowedTransition(s, t) ==
  \/ s = t
  \/ s = "active" /\ t \in {"trailing", "exited"}
  \/ s = "trailing" /\ t = "exited"

\* C3: in every step, every position stays a position and its status either
\* stays or goes active -> trailing, active -> exited or trailing -> exited;
\* so exited is never left and trailing never returns to active.
C3_StatusTransitions ==
  [][\A a \in DOMAIN db.positions :
       /\ a \in DOMAIN db'.positions
       /\ AllowedTransition(db.positions[a].status, db'.positions[a].status)
    ]_vars

\* an update reached a trailing position at a price below the activation
\* multiple and left it open
C3_Witness ==
  /\ last.op = "update"
  /\ last.before.status = "trailing"
  /\ last.price * 100 < last.before.entryPrice * db.config.trailActivation
  /\ LastPos.status = "trailing"

\* C4: updatePosition on an exited position or on an unknown address
\* returns null and changes nothing in the document (no field of any
\* position, no stats counter, no history entry), whatever the price.
C4_ExitedNoOp ==
  [][( /\ last'.op = "update"
       /\ last'.before.status \in {"exited", "none"} )
     => ( last'.action = "null" /\ db' = db )
    ]_vars

\* an update was called on an exited position with a price that would have
\* hit the stop loss of an open one
C4_Witness ==
  /\ last.op = "update"
  /\ last.before.status = "exited"
  /\ last.price * 100 <= last.before.entryPrice * (100 - stopLoss)

\* C6: peakPrice of a position never decreases.
C6_PeakMonotonic ==
  [][\A a \in DOMAIN db.positions :
       db'.positions[a].peakPrice >= db.positions[a].peakPrice
    ]_vars

\* an update below the peak left the position open
C6_Witness ==
  /\ last.op = "update"
  /\ last.action = "update"
  /\ last.price < last.before.peakPrice
  /\ LastPos.peakPrice = last.before.peakPrice

\* C7: the trail stop of a trailing position never decreases in a call of
\* updatePosition.
C7_TrailMonotonic ==
  [][\A a \in DOMAIN db.positions :
       db.positions[a].status = "trailing"
       => db'.positions[a].trailPrice >= db.positions[a].trailPrice
    ]_vars

\* a trailing position was updated with a price below its peak and above
\* its trail stop
C7_Witness ==
  /\ last.op = "update"
  /\ last.before.status = "trailing"
  /\ last.price < last.before.peakPrice
  /\ last.price > last.before.trailPrice
  /\ LastPos.status = "trailing"
  /\ LastPos.trailPrice = last.before.trailPrice

\* the configuration of the two scenarios
ScenarioConfig ==
  /\ db.config.positionSize = 250000
  /\ db.config.trailActivation = 150
  /\ db.config.trailDistance = 10
  /\ db.config.stopLoss = 15

\* C8: trail scenario.  Entry 1.00, size 250, trailActivation 1.5,
\* trailDistance 0.10, stopLoss 0.15: after the update 1.60 the position is
\* trailing with trailPrice 1.44 and still open; after the further update
\* 1.40 it is closed with reason trail, exitPrice 1.44 and pnl 110.00.
C8_TrailScenario ==
  \A a \in Addr :
    /\ (ScenarioConfig /\ log[a] = << 1000, 1600 >>)
       => ( /\ db.positions[a].status = "trailing"
            /\ db.positions[a].trailPrice = 1440
            /\ db.positions[a].exitPrice = Null )
    /\ (ScenarioConfig /\ log[a] = << 1000, 1600, 1400 >>)
       => ( /\ db.positions[a].status = "exited"
            /\ db.positions[a].exitReason = "trail"
            /\ db.positions[a].exitPrice = 1440
            /\ db.positions[a].pnl = 110000 )

\* the scenario was played to its end
C8_Witness ==
  /\ ScenarioConfig
  /\ \E a \in Addr : log[a] = << 1000, 1600, 1400 >>
  /\ last.op = "update" /\ last.price = 1400 /\ last.action = "closed"

\* C9: stop-loss scenario.  An active position with entry 1.00 and size 250
\* that receives 0.80 under stopLoss 0.15 is closed with reason stop_loss,
\* exitPrice 0.85 and pnl -37.50, and never was trailing.
C9_StopLossScenario ==
  ( /\ db.config.stopLoss = 15
    /\ last.op = "update"
    /\ last.before.status = "active"
    /\ last.before.entryPrice = 1000
    /\ last.before.size = 250000
    /\ last.price = 800 )
  => ( /\ last.action = "closed"
       /\ LastPos.status = "exited"
       /\ LastPos.exitReason = "stop_loss"
       /\ LastPos.exitPrice = 850
       /\ LastPos.pnl = -37500
       /\ LastPos.trailPrice = Null )

\* the stop-loss scenario happened right after the entry
C9_Witness ==
  /\ db.config.stopLoss = 15
  /\ \E a \in Addr : log[a] = << 1000, 800 >> /\ last.addr = a
  /\ last.op = "update"
  /\ last.before.status = "active"
  /\ LastPos.status = "exited"

\* ------------------------------------------------------------------------
\* Properties of the handlers
\* ------------------------------------------------------------------------

\* sum of the pnl of the exited positions of a document
ClosedPnL(d) == SumOver(d, GetClosedPositions(d), "pnl")

\* C1: in every persisted document, stats.totalPnL is the sum of the pnl of
\* the exited positions, also after a polling cycle that closed positions
\* and adjusted them for slippage.
C1_TotalPnLIsSumOfClosed == pinned.stats.totalPnL = ClosedPnL(pinned)

\* C5: no re-entry.  When the intake handler has loaded a document in which
\* the requested address is a key of positions (whatever its status) or is
\* in history, the request ends with status 'exists', the document it
\* loaded is not modified and nothing is saved.
C5_NoReentry ==
  [][( /\ sig.pc = "load"
       /\ sig'.pc # "load"
       /\ \/ sig.addr \in DOMAIN pinned.positions
          \/ \E k \in DOMAIN pinned.history :
               pinned.history[k].address = sig.addr )
     => ( /\ sig'.pc = "done"
          /\ sig'.status = "exists"
          /\ sig'.db = pinned
          /\ pinned' = pinned )
    ]_vars

\* a request for an address whose position is exited was answered 'exists'
C5_Witness ==
  /\ sig.pc = "done"
  /\ sig.status = "exists"
  /\ sig.addr \in DOMAIN pinned.positions
  /\ pinned.positions[sig.addr].status = "exited"
  /\ sig.db = pinned

\* C10: slippage scenario.  When the cycle has closed a position by trail
\* at trail price 1.44 with size 250 and slippage 0.10, the position's
\* exitPrice is 1.296, its pnl is computed from 1.296, and that pnl is what
\* totalPnL holds for it.
C10_SlippageScenario ==
  \A k \in DOMAIN run.closed :
    LET c == run.closed[k]
        pos == run.db.positions[c.address]
    IN ( /\ run.pc = "save"
         /\ c.reason = "trail"
         /\ pos.trailPrice = 1440
         /\ pos.size = 250000
         /\ c.slippage = 100 )
       => ( /\ pos.exitPrice = 1296
            /\ pos.pnl = PnLOf(1296, pos.entryPrice, pos.size)
            /\ run.db.stats.totalPnL = ClosedPnL(run.db) )

\* the counters of a document agree with its positions
CountsMatch(d) ==
  /\ d.stats.openPositions = Len(GetOpenPositions(d))
  /\ d.stats.closedPositions = Len(GetClosedPositions(d))
  /\ d.stats.totalTrades = Cardinality(DOMAIN d.positions)

\* C11: starting from a fresh document, in the persisted document and in
\* the document of every running invocation, openPositions is the number of
\* active or trailing positions, closedPositions the number of exited ones
\* and totalTrades the number of keys of positions.
C11_CountsMatchPositions ==
  /\ CountsMatch(pinned)
  /\ run.db # NoDB => CountsMatch(run.db)
  /\ sig.db # NoDB => CountsMatch(sig.db)

\* the persisted document holds an open and an exited position
C11_Witness ==
  /\ \E a \in DOMAIN pinned.positions : IsOpen(pinned.positions[a])
  /\ \E a \in DOMAIN pinned.positions : pinned.positions[a].status = "exited"
  /\ pinned.stats.totalTrades = 2

\* C12: the statistics a polling run answers with carry unrealizedPnL equal
\* to the sum of the open positions' unrealizedPnL, and totalPnL equal to
\* the stored totalPnL plus that sum.
C12_GetStatsUnrealized ==
  (run.pc = "done" /\ run.status = "ok") =>
    LET unrealized == SumOver(run.db, GetOpenPositions(run.db),
                              "unrealizedPnL")
    IN /\ GetStats(run.db).unrealizedPnL = unrealized
       /\ GetStats(run.db).totalPnL = run.db.stats.totalPnL + unrealized

\* C16: a save that throws in one iteration does not end the run: the
\* iteration counter advances, the next iteration starts if one remains,
\* and a run in which a save failed still ends with status ok.
C16_SaveFailureContinues ==
  [][ /\ (run.pc = "save" /\ run' # run) =>
           /\ run'.i = run.i + 1
           /\ run'.pc = (IF run.i + 1 < Iterations THEN "load1" ELSE "done")
           /\ run'.status # "error"
      /\ (run'.pc = "done" /\ run'.saveFailed) =>
           (run'.i = Iterations /\ run'.status = "ok") ]_vars

\* a run ended after a save of one of its iterations failed
C16_Witness ==
  run.pc = "done" /\ run.saveFailed /\ run.status = "ok" /\ run.i = Iterations

\* addresses for which the lookup of this iteration returned no usable price
NoPrice(a) == a \notin DOMAIN run.market \/ run.market[a].price = 0

\* C19: the updates of an iteration are applied to the document loaded
\* after the price fetch: every position the store holds at that moment is
\* in the iteration's document with the store's counters, and a position
\* opened since the first load is in it exactly as the store holds it.
C19_ReloadSandwich ==
  [][ (run.pc = "load2" /\ run' # run) =>
        /\ DOMAIN run'.db.positions = DOMAIN pinned.positions
        /\ run'.db.stats.totalTrades = pinned.stats.totalTrades
        /\ \A a \in DOMAIN pinned.positions :
             a \notin SeqToSet(run.open) =>
               run'.db.positions[a] = pinned.positions[a] ]_vars

\* the iteration is about to save a document holding an open position that
\* was not there at its first load
C19_Witness ==
  /\ run.pc = "save"
  /\ \E a \in DOMAIN run.db.positions :
       IsOpen(run.db.positions[a]) /\ a \notin SeqToSet(run.open)

\* C20: an open position without an entry in the lookup result, or with a
\* price of zero, is the same record after the iteration's updates.
C20_NoPriceUntouched ==
  [][ (run.pc = "load2" /\ run' # run) =>
        \A a \in DOMAIN pinned.positions :
          (IsOpen(pinned.positions[a]) /\ NoPrice(a)) =>
            run'.db.positions[a] = pinned.positions[a] ]_vars

\* the iteration changed one open position and left alone another that was
\* quoted at zero
C20_Witness ==
  /\ run.pc = "save"
  /\ \E a \in DOMAIN run.market :
       /\ run.market[a].price = 0
       /\ a \in DOMAIN run.db.positions
       /\ IsOpen(run.db.positions[a])

\* the pinned message of the channel is somebody else's
ForeignPinned ==
  chan.pins # << >> /\ chan.msgs[PinnedMessage(chan)].kind \in ForeignKinds

\* C13: a load() that finds a pinned message which is not a document, or a
\* document of another name, throws and leaves the channel and the instance
\* as they were: nothing is uploaded, edited or pinned.
C13_ForeignPinnedLoadFails ==
  [][ (gw'.op = "load" /\ ForeignPinned) =>
        /\ gw'.threw
        /\ gw'.uploads = 0 /\ gw'.edits = 0 /\ gw'.pins = 0
        /\ chan' = chan
        /\ inst' = inst ]_vars

\* a load() threw on a pinned text message that hides a DB file holding a
\* position
C13_Witness ==
  /\ gw.op = "load" /\ gw.case = "text" /\ gw.threw
  /\ \E id \in DOMAIN chan.msgs :
       /\ chan.msgs[id].kind = "db"
       /\ chan.msgs[id].content.positions # << >>

\* C14: a load() that finds the DB file pinned but cannot download or parse
\* it throws; it writes nothing to the channel.
C14_CorruptLoadFatal ==
  [][ (gw'.op = "load" /\ gw'.case = "corrupt") =>
        /\ gw'.threw
        /\ gw'.uploads = 0 /\ gw'.edits = 0 /\ gw'.pins = 0
        /\ chan' = chan ]_vars

\* C15: a reset request with the token, answered ok by the channel, ends
\* with status 200 and a fresh empty document pinned; one without the
\* token ends with status 400.
C15_ResetReplacesDocument ==
  /\ (gw.op = "reset" /\ gw.case = "RESET"
        /\ gw.error \notin {"upload", "pin"}) =>
       /\ gw.status = 200
       /\ PinnedCase(chan) = "db"
       /\ chan.msgs[PinnedMessage(chan)].content.positions = << >>
       /\ chan.msgs[PinnedMessage(chan)].content.history = << >>
       /\ chan.msgs[PinnedMessage(chan)].content.stats = FreshStats
  /\ (gw.op = "reset" /\ gw.case # "RESET") => gw.status = 400

\* C17: a save() whose edit is answered 'message to edit not found' or
\* 'chat not found' uploads the in-memory document as a new message, pins
\* it and points messageId and fileId at it; a save() whose edit fails
\* otherwise throws and keeps messageId; a later edit goes to messageId.
C17_LostMessageRecreated ==
  [][ /\ (gw'.op = "save" /\ gw'.edit \in {"not_found", "chat_not_found"}
            /\ gw'.error \notin {"upload", "pin"}) =>
           /\ ~gw'.threw
           /\ inst'.messageId \notin DOMAIN chan.msgs
           /\ inst'.messageId \in DOMAIN chan'.msgs
           /\ chan'.msgs[inst'.messageId].kind = "db"
           /\ chan'.msgs[inst'.messageId].content = inst.db
           /\ chan'.msgs[inst'.messageId].file = inst'.fileId
           /\ PinnedMessage(chan') = inst'.messageId
           /\ inst'.db = inst.db
      /\ (gw'.op = "save" /\ gw'.edit \in {"canceled", "other"}) =>
           /\ gw'.threw
           /\ inst'.messageId = inst.messageId
           /\ chan' = chan
      /\ (gw'.op = "save" /\ gw'.edit = "ok") =>
           /\ inst'.messageId = inst.messageId
           /\ chan'.msgs[inst.messageId].content = inst.db ]_vars

\* a save() found its message gone and re-created a document that holds a
\* position
C17_Witness ==
  /\ gw.op = "save" /\ gw.edit = "not_found"
  /\ gw.uploads = 1 /\ gw.pins = 1 /\ ~gw.threw
  /\ inst.db.positions # << >>
  /\ chan.msgs[inst.messageId].content = inst.db

\* C18: a save() whose edit is answered 'message is not modified' returns
\* without an error, uploads and pins nothing and keeps messageId.
C18_NotModifiedIsSuccess ==
  [][ (gw'.op = "save" /\ gw'.edit = "not_modified") =>
        /\ ~gw'.threw
        /\ gw'.uploads = 0 /\ gw'.pins = 0
        /\ inst'.messageId = inst.messageId
        /\ chan' = chan ]_vars

\* a save() was answered 'message is not modified'
C18_Witness ==
  /\ gw.op = "save" /\ gw.edit = "not_modified" /\ ~gw.threw
  /\ inst.messageId # NoMsg

\* C21: for every position, trailPrice is set exactly when the position is
\* trailing or was exited by the trail.
C21_TrailPriceIffTrailing ==
  \A a \in DOMAIN db.positions :
    LET pos == db.positions[a]
    IN (pos.trailPrice # Null) <=>
         \/ pos.status = "trailing"
         \/ pos.status = "exited" /\ pos.exitReason = "trail"

\* C22: every position has peakPrice >= entryPrice.
C22_PeakAtLeastEntry ==
  \A a \in DOMAIN db.positions :
    db.positions[a].peakPrice >= db.positions[a].entryPrice

\* a position was closed below its entry price, and another one has a peak
\* above its entry price
C22_Witness ==
  /\ last.op = "update"
  /\ LastPos.status = "exited"
  /\ LastPos.exitPrice < LastPos.entryPrice
  /\ \E a \in DOMAIN db.positions :
       db.positions[a].peakPrice > db.positions[a].entryPrice

\* C23: a close appends one record for the closed position at the end of
\* history and cuts history to its newest HistoryLimit records; the
\* records kept are those that were there, in their order; a restore keeps
\* the records that were there, in their order, at the end; any other call
\* leaves history as it is.
C23_HistoryAppendOnly ==
  [][ LET h == db.history
          g == db'.history
          drop == Len(h) + 1 - Len(g)
      IN IF last'.action = "closed"
         THEN /\ Len(g) = Min(Len(h) + 1, HistoryLimit)
              /\ g[Len(g)].address = last'.addr
              /\ g[Len(g)].reason = last'.reason
              /\ g[Len(g)].exit = db'.positions[last'.addr].exitPrice
              /\ g[Len(g)].pnl = db'.positions[last'.addr].pnl
              /\ \A k \in 1..(Len(g) - 1) : g[k] = h[k + drop]
         ELSE IF last'.op = "restore"
         THEN /\ Len(g) >= Len(h)
              /\ \A k \in 1..Len(h) : g[k + Len(g) - Len(h)] = h[k]
         ELSE g = h ]_vars

\* a close on a full history dropped its oldest record
C23_Witness ==
  /\ last.action = "closed"
  /\ Len(db.history) = HistoryLimit
  /\ db.history[1].pnl # OldHistory(1)[1].pnl
  /\ db.history[Len(db.history)].address = last.addr

\* C24: an intake answered 'opened' has added an active position of size
\* config.positionSize whose entryPrice is the live price when that is
\* positive and the supplied price otherwise, and that price is positive;
\* an intake for a new address with neither price positive is answered
\* with an error and the address is not in the persisted document.
C24_IntakeEntryPrice ==
  /\ (sig.pc = "done" /\ sig.status = "opened") =>
       LET pos == sig.db.positions[sig.addr]
       IN /\ pos.status = "active"
          /\ pos.size = sig.db.config.positionSize
          /\ pos.entryPrice = (IF sig.livePrice > 0 THEN sig.livePrice
                               ELSE sig.signalPrice)
          /\ pos.entryPrice > 0
  /\ (sig.pc = "done" /\ sig.status \notin {"exists", "rejected"}
        /\ sig.livePrice <= 0 /\ sig.signalPrice <= 0) =>
       (sig.status = "error" /\ ~HasPosition(pinned, sig.addr))

\* C25: an intake request without tokenAddress is answered with the error
\* at once: the handler holds no loaded document and the persisted document
\* stays as it is.
C25_MissingAddressRejected ==
  [][ sig'.addr = "" =>
        /\ sig'.pc = "done"
        /\ sig'.status = "rejected"
        /\ sig'.db = NoDB
        /\ pinned' = pinned ]_vars

\* a request without tokenAddress was rejected while the persisted document
\* holds a position
C25_Witness ==
  /\ sig.addr = "" /\ sig.status = "rejected" /\ sig.pc = "done"
  /\ pinned.positions # << >>

\* C26: a close of an open position takes one from openPositions, adds one
\* to closedPositions, adds one to winCount when the realized pnl is above
\* zero and to lossCount otherwise (a trade that broke even is a loss), adds
\* the pnl (exitPrice/entryPrice - 1) * size to totalPnL, and leaves
\* totalTrades and every other position alone; the history ends up hlen long.
CloseDeltas(d, d2, a, hlen) ==
  LET pos == d2.positions[a]
      win == IF pos.pnl > 0 THEN 1 ELSE 0
  IN /\ HasPosition(d, a) /\ IsOpen(d.positions[a])
     /\ pos.pnl = PnLOf(pos.exitPrice, pos.entryPrice, pos.size)
     /\ d2.stats.openPositions = d.stats.openPositions - 1
     /\ d2.stats.closedPositions = d.stats.closedPositions + 1
     /\ d2.stats.winCount = d.stats.winCount + win
     /\ d2.stats.lossCount = d.stats.lossCount + (1 - win)
     /\ d2.stats.totalPnL = d.stats.totalPnL + pos.pnl
     /\ d2.stats.totalTrades = d.stats.totalTrades
     /\ Len(d2.history) = hlen
     /\ d2.keys = d.keys
     /\ \A k \in DOMAIN d.positions \ {a} : d2.positions[k] = d.positions[k]

C26_WitnessWin ==
  /\ last.action = "closed"
  /\ db.positions[last.addr].pnl > 0
  /\ db.stats.winCount = 1
\* C27: in the document the store holds, winCount is the number of exited
\* positions whose recorded pnl is above zero, lossCount the number of those
\* whose recorded pnl is zero or below, and the two add up to
\* closedPositions.
Exited(d) == { a \in DOMAIN d.positions : d.positions[a].status = "exited" }

C27_WinLossMatchPnl ==
  /\ pinned.stats.winCount =
       Cardinality({ a \in Exited(pinned) : pinned.positions[a].pnl > 0 })
  /\ pinned.stats.lossCount =
       Cardinality({ a \in Exited(pinned) : pinned.positions[a].pnl <= 0 })
  /\ pinned.stats.winCount + pinned.stats.lossCount
       = pinned.stats.closedPositions
\* C28: getSlippage is min(tradeSize / liquidity, 0.5) when the liquidity is
\* positive and 0 when it is missing or zero; so the slippage lies between 0
\* and 0.5, and the realized exit price quotedPrice * (1 - slippage) lies
\* between half the quoted price and the quoted price.
C28_SlippageBounds ==
  slip.op = "getSlippage" =>
    /\ slip.liquidity > 0 =>
          slip.slippage * slip.liquidity
            = Min(slip.tradeSize * 1000, 500 * slip.liquidity)
    /\ slip.liquidity = 0 => slip.slippage = 0
    /\ 0 <= slip.slippage /\ slip.slippage <= 500
    /\ slip.realExitPrice * 1000 = slip.price * (1000 - slip.slippage)
    /\ 2 * slip.realExitPrice >= slip.price
    /\ slip.realExitPrice <= slip.price

\* a trade of twice the pool: the cap acts and the exit is at half the quote
C28_Witness ==
  /\ slip.op = "getSlippage"
  /\ slip.tradeSize = 2 * slip.liquidity
  /\ slip.slippage = 500
  /\ 2 * slip.realExitPrice = slip.price
\* C29: a polling run that has started ends; it ends with the ok response
\* after exactly 3 iterations unless a load failed, and with the error
\* response before the 3 iterations are over if a load failed.
C29_RunTerminates ==
  /\ [](run.pc = "done" =>
          IF run.loadFailed
          THEN run.status = "error" /\ run.i < Iterations
          ELSE run.status = "ok" /\ run.i = Iterations)
  /\ (run.pc \notin {"idle", "done"} ~> run.pc = "done")

\* every run that has started ends
PollEnds == run.pc \notin {"idle", "done"} ~> run.pc = "done"

\* a run ends with the ok response after 3 iterations, or with the error
\* response after a load or a notification threw
PollResponse ==
  run.pc = "done" =>
    IF run.loadFailed \/ run.notifyFailed
    THEN run.status = "error" /\ run.i < Iterations
    ELSE run.status = "ok" /\ run.i = Iterations
\* the open positions of the document the store holds that the lookup of
\* this iteration priced
Priced ==
  { a \in DOMAIN pinned.positions :
      IsOpen(pinned.positions[a]) /\ ~NoPrice(a) }

\* C30: an iteration goes on to save exactly when an open position of its
\* second load has a price; otherwise it ends with nothing to notify and
\* the store untouched, as does an iteration whose first load finds no open
\* position; the run writes the store only in its save step.
C30_ConditionalSave ==
  [][ /\ (run.pc = "load2" /\ run' # run) =>
           /\ (run'.pc = "save") <=> (Priced # {})
           /\ pinned' = pinned
           /\ Priced = {} =>
                /\ run'.closed = << >> /\ run'.trailActivated = << >>
                /\ run'.db = pinned
                /\ run'.i = run.i + 1
      /\ (run.pc = "load1" /\ run' # run
             /\ GetOpenPositions(pinned) = << >>) =>
           /\ run'.pc \in {"load1", "done"}
           /\ run'.i = run.i + 1
           /\ run'.closed = << >> /\ run'.trailActivated = << >>
           /\ pinned' = pinned
      /\ (run' # run /\ pinned' # pinned) => run.pc = "save" ]_vars

\* an iteration about to save: of two open positions one was priced and
\* the other was not
C30_Witness ==
  /\ run.pc = "save"
  /\ Priced # {}
  /\ \E b \in DOMAIN pinned.positions :
       IsOpen(pinned.positions[b]) /\ NoPrice(b)
\* C31: whenever the stored document changes, the new one is the whole
\* in-memory document of the invocation that was at its save; and the
\* stored document's openPositions is the number of its active or trailing
\* positions, its closedPositions the number of its exited positions.
C31_WholeDocumentWrites ==
  [][ pinned' # pinned =>
        /\ \/ (run.pc = "save" /\ run' # run /\ pinned' = run.db)
           \/ (sig.pc = "save" /\ sig' # sig /\ pinned' = sig.db)
        /\ pinned'.stats.openPositions
             = Cardinality({ a \in DOMAIN pinned'.positions :
                               IsOpen(pinned'.positions[a]) })
        /\ pinned'.stats.closedPositions = Cardinality(Exited(pinned')) ]_vars

\* the intake has just replaced the stored document while a polling run
\* holds another document, with a close in it, that it is about to save
C31_Witness ==
  /\ sig.pc = "done" /\ sig.status = "opened" /\ pinned = sig.db
  /\ run.pc = "save" /\ run.db # pinned
  /\ Exited(run.db) # {}
\* C32: no call of the engine changes the document's config, and no call
\* changes the size or the entryPrice of a position the document holds.
C32_ConfigAndEntryFixed ==
  [][ /\ db'.config = db.config
      /\ \A a \in DOMAIN db.positions :
           /\ a \in DOMAIN db'.positions
           /\ db'.positions[a].size = db.positions[a].size
           /\ db'.positions[a].entryPrice = db.positions[a].entryPrice ]_vars

\* a close by trail after the opening of a second position: the closed
\* position still has the size and the entry price it was opened with
C32_Witness ==
  /\ last.action = "closed" /\ last.reason = "trail"
  /\ Cardinality(DOMAIN db.positions) = 2
  /\ db.positions[last.addr].size = db.config.positionSize
  /\ db.positions[last.addr].entryPrice = log[last.addr][1]
\* C33: an address that is exited in the stored document is never active
\* or trailing in a document stored later.
C33_ExitedStaysExitedInStore ==
  [][ \A a \in DOMAIN pinned.positions :
        (pinned.positions[a].status = "exited"
           /\ a \in DOMAIN pinned'.positions)
          => ~IsOpen(pinned'.positions[a]) ]_vars
\* C34: the address of the latest request answered 'opened' is a key of
\* positions in the stored document from then on.
C34_AcknowledgedOpenKept ==
  (sig.pc = "done" /\ sig.status = "opened") => HasPosition(pinned, sig.addr)
\* C35: within one polling run no address gets two close notifications,
\* and the closed count of the run is the number of addresses notified.
C35_OneCloseNoticePerRun ==
  /\ \A j, k \in DOMAIN run.notified :
       run.notified[j] = run.notified[k] => j = k
  /\ run.totalClosed = Cardinality(SeqToSet(run.notified))
\* the history records of a document for an address
RecordsOf(d, a) == { k \in DOMAIN d.history : d.history[k].address = a }

\* C36: every exited position of the stored document that a polling cycle
\* closed has a history record whose exit and pnl are the position's
\* exitPrice and pnl.
C36_HistoryMatchesPosition ==
  \A a \in Exited(pinned) :
    \E k \in RecordsOf(pinned, a) :
      /\ pinned.history[k].exit = pinned.positions[a].exitPrice
      /\ pinned.history[k].pnl = pinned.positions[a].pnl
\* the exit price the engine's close sets: the stop level for a stop_loss
\* close, the trail stop for a trail close
EngineExit(d, a, reason) ==
  IF reason = "stop_loss"
  THEN (d.positions[a].entryPrice * (100 - StopLossOf(d.config))) \div 100
  ELSE d.positions[a].trailPrice

\* C37: a position that an iteration closed with slippage 0 has, in the
\* document of the iteration, the exit price of the engine's close and the
\* pnl computed from it.
C37_ZeroSlippageKeepsExit ==
  \A k \in DOMAIN run.closed :
    LET c == run.closed[k]
        pos == run.db.positions[c.address]
    IN (run.pc = "save" /\ c.slippage = 0) =>
         /\ pos.exitPrice = EngineExit(run.db, c.address, c.reason)
         /\ pos.pnl = PnLOf(EngineExit(run.db, c.address, c.reason),
                            pos.entryPrice, pos.size)
\* an update that closed a position which was active before the call did
\* so by stop-loss, and an update that closed by trail found the position
\* trailing; an update that made an active position trailing left it open
ActiveExitsByStopLoss ==
  /\ (last'.op = "update" /\ last'.action = "closed"
        /\ last'.before.status = "active") => last'.reason = "stop_loss"
  /\ (last'.op = "update" /\ last'.action = "closed"
        /\ last'.reason = "trail") => last'.before.status = "trailing"
  /\ (last'.op = "update" /\ last'.before.status = "active"
        /\ db'.positions[last'.addr].trailPrice # Null) =>
       db'.positions[last'.addr].status = "trailing"

TrailLocksProfit(cfg) == cfg.trailActivation * (100 - cfg.trailDistance) > 10000

\* C39: under a configuration with trailActivation * (1 - trailDistance)
\* above 1, a close by trail has an exit price above the entry price and a
\* pnl above zero and adds one to winCount; a close by stop-loss has a pnl
\* below zero and adds one to lossCount.
C39_TrailWinsStopLoses ==
  [][ (TrailLocksProfit(db.config) /\ last'.op = "update"
         /\ last'.action = "closed") =>
        LET pos == db'.positions[last'.addr]
        IN IF last'.reason = "trail"
           THEN /\ pos.exitPrice > pos.entryPrice
                /\ pos.pnl > 0
                /\ db'.stats.winCount = db.stats.winCount + 1
                /\ db'.stats.lossCount = db.stats.lossCount
           ELSE /\ last'.reason = "stop_loss"
                /\ pos.pnl < 0
                /\ db'.stats.lossCount = db.stats.lossCount + 1
                /\ db'.stats.winCount = db.stats.winCount ]_vars

\* a close by trail and a close by stop-loss under such a configuration
C39_Witness ==
  /\ TrailLocksProfit(db.config)
  /\ last.action = "closed" /\ last.reason = "trail"
  /\ db.stats.winCount = 1 /\ db.stats.lossCount = 1
\* the sizes of the positions of a document, summed
SizeOf(d, S) ==
  LET RECURSIVE Sum(_)
      Sum(T) == IF T = {} THEN 0
                ELSE LET a == CHOOSE x \in T : TRUE
                     IN d.positions[a].size + Sum(T \ {a})
  IN Sum(S)

\* C40: from the fresh document on, startingCapital + capitalFromProfits
\* is totalCapitalDeployed, which is the summed size of all positions
\* opened; peakCapitalDeployed is at least the summed size of the open
\* positions, and never decreases.
C40_CapitalAccounting ==
  /\ [](/\ db.stats.startingCapital + db.stats.capitalFromProfits
            = db.stats.totalCapitalDeployed
        /\ db.stats.totalCapitalDeployed
            = SizeOf(db, DOMAIN db.positions)
        /\ db.stats.peakCapitalDeployed
            >= SizeOf(db, { a \in DOMAIN db.positions :
                             IsOpen(db.positions[a]) }))
  /\ [][db'.stats.peakCapitalDeployed >= db.stats.peakCapitalDeployed]_vars

\* a second position opened after a win larger than its size: it is paid
\* from profits in full
C40_Witness ==
  /\ last.op = "add"
  /\ db.stats.totalTrades = 2
  /\ db.stats.capitalFromProfits = db.config.positionSize
  /\ db.stats.startingCapital = db.config.positionSize
====
